---- MODULE Spec2Model ----
(***************************************************************************)
(* graywires: a cycle-accurate circuit simulator that records, for every   *)
(* wire, the wires its value was computed from, and a mark-and-sweep pass  *)
(* over that provenance (src/circuits.py), plus the static usage graph of  *)
(* src/graph.py.                                                           *)
(*                                                                         *)
(* The specifications share the variables:                                 *)
(*   OpSpec      one call of a ConcreteWire operator on drawn operands     *)
(*   BundleSpec  a WireBundle under arbitrary mapping operations           *)
(*   Spec        Circuit.dump on the fixture circuits                      *)
(*   LibSpec     the behaviours of Spec and of BundleSpec together         *)
(*   FairSpec    Spec with its mark loop kept running                      *)
(*   GraphSpec   update_input_usage and mark_and_sweep on a static graph   *)
(***************************************************************************)
EXTENDS Integers, Sequences, FiniteSets, TLC

\* ------------------------------------------------------------------ bounds
MaxWidth == 2
MaxArgs == 1
MaxBundleCycle == 1
MaxCycles == 3

None == "None"

\* ------------------------------------------------- Python integer helpers
RECURSIVE Pow2(_)
Pow2(n) == IF n <= 0 THEN 1 ELSE 2 * Pow2(n - 1)

Min(a, b) == IF a <= b THEN a ELSE b
Max(a, b) == IF a >= b THEN a ELSE b

\* Python's & | ^ on arbitrary-precision two's-complement integers.
RECURSIVE BitAnd(_, _)
BitAnd(a, b) ==
    IF a = 0 \/ b = 0 THEN 0
    ELSE IF a = -1 THEN b
    ELSE IF b = -1 THEN a
    ELSE (a % 2) * (b % 2) + 2 * BitAnd(a \div 2, b \div 2)

RECURSIVE BitOr(_, _)
BitOr(a, b) ==
    IF a = 0 THEN b
    ELSE IF b = 0 THEN a
    ELSE IF a = -1 \/ b = -1 THEN -1
    ELSE Max(a % 2, b % 2) + 2 * BitOr(a \div 2, b \div 2)

RECURSIVE BitXor(_, _)
BitXor(a, b) ==
    IF a = 0 THEN b
    ELSE IF b = 0 THEN a
    ELSE IF a = -1 THEN -b - 1
    ELSE IF b = -1 THEN -a - 1
    ELSE ((a + b) % 2) + 2 * BitXor(a \div 2, b \div 2)

BitNot(a) == -a - 1

\* int(True) = 1, int(False) = 0: a bool stored as a BitVector value.
BoolInt(p) == IF p THEN 1 ELSE 0

\* ------------------------------------------------------------- BitVector
\* A frozen dataclass of two fields; construction stores value as given.
BitVector(value, width) == [value |-> value, width |-> width]

BV1(value) == BitVector(value, 1)

\* ---------------------------------------------------------- ConcreteWire
ConcreteWire(name, bv, cycle, srcs) ==
    [name |-> name, bv |-> bv, cycle |-> cycle, srcs |-> srcs]

\* A GraphNode is the pair (BitVector, list of ConcreteWire).
GraphNode(bv, srcs) == <<bv, srcs>>

\* __and__ with the two pruned cases exchanged: the operand of value 1 is kept
\* where the code keeps the operand of value 0.
__and___keeping_one(self, o) ==
    LET bv == BitVector(BitAnd(self.bv.value, o.bv.value),
                        Min(self.bv.width, o.bv.width))
    IN  IF self.bv.value = 1 /\ o.bv.value = 1 THEN GraphNode(bv, <<self, o>>)
        ELSE IF self.bv.value = 1 /\ o.bv.value = 0 THEN GraphNode(bv, <<self>>)
        ELSE IF self.bv.value = 0 /\ o.bv.value = 1 THEN GraphNode(bv, <<o>>)
        ELSE GraphNode(bv, <<self, o>>)

__and__(self, o) ==
    LET bv == BitVector(BitAnd(self.bv.value, o.bv.value),
                        Min(self.bv.width, o.bv.width))
    IN  IF self.bv.value = 1 /\ o.bv.value = 1 THEN GraphNode(bv, <<self, o>>)
        ELSE IF self.bv.value = 1 /\ o.bv.value = 0 THEN GraphNode(bv, <<o>>)
        ELSE IF self.bv.value = 0 /\ o.bv.value = 1 THEN GraphNode(bv, <<self>>)
        ELSE GraphNode(bv, <<self, o>>)

__or__(self, o) ==
    LET bv == BitVector(BitOr(self.bv.value, o.bv.value),
                        Min(self.bv.width, o.bv.width))
    IN  IF self.bv.value = 0 /\ o.bv.value = 0 THEN GraphNode(bv, <<self, o>>)
        ELSE IF self.bv.value = 0 /\ o.bv.value = 1 THEN GraphNode(bv, <<o>>)
        ELSE IF self.bv.value = 1 /\ o.bv.value = 0 THEN GraphNode(bv, <<self>>)
        ELSE GraphNode(bv, <<self, o>>)

__xor__(self, o) ==
    GraphNode(BitVector(BitXor(self.bv.value, o.bv.value),
                        Min(self.bv.width, o.bv.width)),
              <<self, o>>)

__lt__(self, o) == GraphNode(BV1(BoolInt(self.bv.value < o.bv.value)), <<self, o>>)

__le__(self, o) == GraphNode(BV1(BoolInt(self.bv.value <= o.bv.value)), <<self, o>>)

__eq__(self, o) == GraphNode(BV1(BoolInt(self.bv.value = o.bv.value)), <<self, o>>)

__ne__(self, o) == GraphNode(BV1(BoolInt(self.bv.value # o.bv.value)), <<self, o>>)

__ge__(self, o) == GraphNode(BV1(BoolInt(self.bv.value >= o.bv.value)), <<self, o>>)

__gt__(self, o) == GraphNode(BV1(BoolInt(self.bv.value > o.bv.value)), <<self, o>>)

__add__(self, o) ==
    GraphNode(BitVector(self.bv.value + o.bv.value,
                        Max(self.bv.width, o.bv.width)),
              <<self, o>>)

__inv__(self) == GraphNode(BitVector(BitNot(self.bv.value), self.bv.width), <<self>>)

\* A call either returns a value or raises: [raised |-> exception name or None,
\* value |-> the result].
Return(v) == [raised |-> None, value |-> v]
Raise(exc) == [raised |-> exc, value |-> None]

\* seq[idx] on a Python tuple or list: 0-based, negative idx counts from the
\* end, anything else raises IndexError.
PyIndex(seq, idx) ==
    LET n == Len(seq)
        k == IF idx < 0 THEN idx + n ELSE idx
    IN  IF k >= 0 /\ k < n THEN Return(seq[k + 1]) ELSE Raise("IndexError")

\* all([on_zero.bv == w.bv for w in args]): BitVector's generated equality.
MuxAllEqual(on_zero, args) == \A k \in 1..Len(args) : on_zero.bv = args[k].bv

mux(self, on_zero, args) ==
    LET used_list == IF MuxAllEqual(on_zero, args) THEN <<>> ELSE <<self>>
    IN  IF self.bv.value # 0
        THEN Return(GraphNode(on_zero.bv, used_list \o <<on_zero>>))
        ELSE LET idx == self.bv.value - 1
             IN  IF ~(idx < Len(args)) THEN Raise("AssertionError")
                 ELSE LET got == PyIndex(args, idx)
                      IN  IF got.raised # None THEN got
                          ELSE Return(GraphNode(got.value.bv,
                                                used_list \o <<got.value>>))

\* ------------------------------------------------------------ Python dict
\* A dict keeps its items in insertion order: a sequence of [key, val].
DictHas(d, key) == \E j \in 1..Len(d) : d[j].key = key

DictGet(d, key) == d[CHOOSE j \in 1..Len(d) : d[j].key = key].val

DictSet(d, key, val) ==
    IF DictHas(d, key)
    THEN [j \in 1..Len(d) |-> IF d[j].key = key THEN [key |-> key, val |-> val] ELSE d[j]]
    ELSE Append(d, [key |-> key, val |-> val])

DictDel(d, key) == SelectSeq(d, LAMBDA e : e.key # key)

DictKeys(d) == {d[j].key : j \in 1..Len(d)}

DictValues(d) == [j \in 1..Len(d) |-> d[j].val]

\* ------------------------------------------------------------ WireBundle
\* A method call on a mutable object: what it raised (or None), what it
\* returned, and the object afterwards.
Ret(self, v) == [raised |-> None, value |-> v, self |-> self]
Exc(self, exc) == [raised |-> exc, value |-> None, self |-> self]

\* WireBundle.__init__: no wires; frozen reads the class default False.
WireBundle(cycle) == [cycle |-> cycle, wires |-> <<>>, frozen |-> FALSE]

\* The value of an item assignment is a ConcreteWire, a GraphNode tuple or a
\* bare BitVector; the tag stands for isinstance(value, ConcreteWire).
AsWire(w) == [isConcreteWire |-> TRUE, wire |-> w]
AsNode(n) == [isConcreteWire |-> FALSE, node |-> n]
AsBitVector(bv) == [isConcreteWire |-> FALSE, bv |-> bv]

\* value[0] and value[1] are defined on a tuple; a BitVector, a dataclass
\* without __getitem__, raises TypeError.
Subscriptable(value) == "node" \in DOMAIN value

__getitem__(self, key) ==
    IF DictHas(self.wires, key) THEN Ret(self, DictGet(self.wires, key))
    ELSE Exc(self, "KeyError")

\* __setitem__ without the check of self.frozen.
__setitem___unchecked(self, key, value) ==
    IF ~value.isConcreteWire /\ ~Subscriptable(value) THEN Exc(self, "TypeError")
    ELSE LET wire == IF value.isConcreteWire
                     THEN ConcreteWire(key, value.wire.bv, self.cycle, <<value.wire>>)
                     ELSE ConcreteWire(key, value.node[1], self.cycle, value.node[2])
         IN  Ret([self EXCEPT !.wires = DictSet(self.wires, key, wire)], None)

\* __setitem__ that stores an assigned ConcreteWire as it is, with its own
\* name and cycle, instead of wrapping it in a new wire.
__setitem___aliasing(self, key, value) ==
    IF self.frozen THEN Exc(self, "KeyError")
    ELSE IF ~value.isConcreteWire /\ ~Subscriptable(value) THEN Exc(self, "TypeError")
    ELSE LET wire == IF value.isConcreteWire
                     THEN value.wire
                     ELSE ConcreteWire(key, value.node[1], self.cycle, value.node[2])
         IN  Ret([self EXCEPT !.wires = DictSet(self.wires, key, wire)], None)

__setitem__(self, key, value) ==
    IF self.frozen THEN Exc(self, "KeyError")
    ELSE IF ~value.isConcreteWire /\ ~Subscriptable(value) THEN Exc(self, "TypeError")
    ELSE LET wire == IF value.isConcreteWire
                     THEN ConcreteWire(key, value.wire.bv, self.cycle, <<value.wire>>)
                     ELSE ConcreteWire(key, value.node[1], self.cycle, value.node[2])
         IN  Ret([self EXCEPT !.wires = DictSet(self.wires, key, wire)], None)

__delitem__(self, key) ==
    IF DictHas(self.wires, key)
    THEN Ret([self EXCEPT !.wires = DictDel(self.wires, key)], None)
    ELSE Exc(self, "KeyError")

\* freeze as a toggle: a second call opens the bundle again.
freeze_toggling(self) ==
    LET toggled == [self EXCEPT !.frozen = ~self.frozen]
    IN  Ret(toggled, toggled)

freeze(self) ==
    LET frozen == [self EXCEPT !.frozen = TRUE]
    IN  Ret(frozen, frozen)

\* The methods WireBundle inherits from collections.abc.MutableMapping, each
\* written in terms of __getitem__, __setitem__, __delitem__ and __iter__.
pop(self, key) ==
    LET got == __getitem__(self, key)
    IN  IF got.raised # None THEN got
        ELSE LET del == __delitem__(self, key)
             IN  IF del.raised # None THEN del ELSE Ret(del.self, got.value)

popitem(self) ==
    IF Len(self.wires) = 0 THEN Exc(self, "KeyError")
    ELSE LET key == self.wires[1].key
             got == __getitem__(self, key)
             del == __delitem__(self, key)
         IN  IF del.raised # None THEN del ELSE Ret(del.self, <<key, got.value>>)

RECURSIVE clear(_)
clear(self) ==
    LET one == popitem(self)
    IN  IF one.raised # None THEN Ret(self, None) ELSE clear(one.self)

\* update(other) for a dict other: assigns its items in order, stopping at
\* the first assignment that raises.
RECURSIVE update(_, _)
update(self, other) ==
    IF Len(other) = 0 THEN Ret(self, None)
    ELSE LET set == __setitem__(self, other[1].key, other[1].val)
         IN  IF set.raised # None THEN set ELSE update(set.self, Tail(other))

setdefault(self, key, default) ==
    LET got == __getitem__(self, key)
    IN  IF got.raised = None THEN got
        ELSE LET set == __setitem__(self, key, default)
             IN  IF set.raised # None THEN set ELSE Ret(set.self, default)

\* ---------------------------------------------------------------- Circuit
CYCLE_LEN_NS == 2

Circuits == {"AndGate1B", "XorFeedback", "AndFeedback"}

\* initial_state_values(): Circuit's default {} unless the class overrides it.
initial_state_values(circ) ==
    IF circ \in {"XorFeedback", "AndFeedback"}
    THEN <<[key |-> "m", val |-> BV1(0)]>>
    ELSE <<>>

\* for name, bv in items: w[name] = (bv, [])
RECURSIVE SetRaw(_, _)
SetRaw(w, items) ==
    IF Len(items) = 0 THEN Ret(w, None)
    ELSE LET set == __setitem__(w, items[1].key, AsNode(GraphNode(items[1].val, <<>>)))
         IN  IF set.raised # None THEN set ELSE SetRaw(set.self, Tail(items))

_get_initial_state(circ) == SetRaw(WireBundle(0), initial_state_values(circ)).self

\* What at_posedge_clk leaves behind: the exception it raised (or None) and
\* the two bundles it was given to fill.
Ticked(raised, next_state, outputs) ==
    [raised |-> raised, next_state |-> next_state, outputs |-> outputs]

\* The tick ended with an assignment to outputs, or with the later of an
\* assignment to each bundle.
TickedOutputs(set, next_state) == Ticked(set.raised, next_state, set.self)
TickedBoth(setm, setq) ==
    Ticked(IF setm.raised # None THEN setm.raised ELSE setq.raised, setm.self, setq.self)

\* AndGate1B: outputs["q"] = inputs["a"] & inputs["b"]
AndGate1B_q(a, bb, next_state, outputs) ==
    IF a.raised # None THEN Ticked(a.raised, next_state, outputs)
    ELSE IF bb.raised # None THEN Ticked(bb.raised, next_state, outputs)
    ELSE TickedOutputs(__setitem__(outputs, "q", AsNode(__and__(a.value, bb.value))),
                       next_state)

AndGate1B_at_posedge_clk(curr_state, inputs, next_state, outputs) ==
    AndGate1B_q(__getitem__(inputs, "a"), __getitem__(inputs, "b"), next_state, outputs)

\* XorFeedback: next_state["m"] = inputs["a"] ^ curr_state["m"], then
\* outputs["q"] = curr_state["m"]
XorFeedback_q(setm, m, outputs) ==
    IF setm.raised # None THEN Ticked(setm.raised, setm.self, outputs)
    ELSE TickedBoth(setm, __setitem__(outputs, "q", AsWire(m.value)))

XorFeedback_m(a, m, next_state, outputs) ==
    IF a.raised # None THEN Ticked(a.raised, next_state, outputs)
    ELSE IF m.raised # None THEN Ticked(m.raised, next_state, outputs)
    ELSE XorFeedback_q(__setitem__(next_state, "m", AsNode(__xor__(a.value, m.value))),
                       m, outputs)

XorFeedback_at_posedge_clk(curr_state, inputs, next_state, outputs) ==
    XorFeedback_m(__getitem__(inputs, "a"), __getitem__(curr_state, "m"),
                  next_state, outputs)

\* AndFeedback: outputs["q"] = inputs["sel"].mux(inputs["a"], curr_state["m"]),
\* then next_state["m"] = inputs["a"] & outputs["q"]
AndFeedback_m(setq, a, next_state) ==
    IF setq.raised # None THEN Ticked(setq.raised, next_state, setq.self)
    ELSE TickedBoth(__setitem__(next_state, "m",
                                AsNode(__and__(a.value, __getitem__(setq.self, "q").value))),
                    setq)

AndFeedback_q(muxed, a, next_state, outputs) ==
    IF muxed.raised # None THEN Ticked(muxed.raised, next_state, outputs)
    ELSE AndFeedback_m(__setitem__(outputs, "q", AsNode(muxed.value)), a, next_state)

AndFeedback_mux(sel, a, m, next_state, outputs) ==
    IF sel.raised # None THEN Ticked(sel.raised, next_state, outputs)
    ELSE IF a.raised # None THEN Ticked(a.raised, next_state, outputs)
    ELSE IF m.raised # None THEN Ticked(m.raised, next_state, outputs)
    ELSE AndFeedback_q(mux(sel.value, a.value, <<m.value>>), a, next_state, outputs)

AndFeedback_at_posedge_clk(curr_state, inputs, next_state, outputs) ==
    AndFeedback_mux(__getitem__(inputs, "sel"), __getitem__(inputs, "a"),
                    __getitem__(curr_state, "m"), next_state, outputs)

at_posedge_clk(circ, curr_state, inputs, next_state, outputs) ==
    IF circ = "AndGate1B" THEN AndGate1B_at_posedge_clk(curr_state, inputs, next_state, outputs)
    ELSE IF circ = "XorFeedback" THEN XorFeedback_at_posedge_clk(curr_state, inputs, next_state, outputs)
    ELSE AndFeedback_at_posedge_clk(curr_state, inputs, next_state, outputs)

\* ------------------------------------------------------ simulation engine
\* One writer.change(var, time, value) of a waveform; dontcare stands for the
\* value "x".
Change(var, time, value, dontcare) ==
    [var |-> var, time |-> time, value |-> value, dontcare |-> dontcare]

Logged(raised, log) == [raised |-> raised, log |-> log]

\* update_wire of _simulate_raw (used.on = FALSE) and of _simulate_with_usage
\* (used.on = TRUE, used.list the (name, cycle) pairs of the marked wires).
update_wire(log, vcd_var_dict, used, i, wire) ==
    IF i # wire.cycle THEN Logged("AssertionError", log)
    ELSE IF wire.name \notin vcd_var_dict THEN Logged("KeyError", log)
    ELSE LET dontcare == used.on /\ <<wire.name, wire.cycle>> \notin used.list
         IN  Logged(None, Append(log, Change(wire.name, i * CYCLE_LEN_NS,
                                              wire.bv.value, dontcare)))

\* for wire in bundle.values(): update_wire(i, wire)
RECURSIVE update_wires(_, _, _, _, _)
update_wires(log, vcd_var_dict, used, i, wires) ==
    IF Len(wires) = 0 THEN Logged(None, log)
    ELSE LET one == update_wire(log, vcd_var_dict, used, i, wires[1])
         IN  IF one.raised # None THEN one
             ELSE update_wires(one.log, vcd_var_dict, used, i, Tail(wires))

\* The names of a set in the order a for loop visits them.
RECURSIVE SetOrder(_)
SetOrder(S) ==
    IF S = {} THEN <<>>
    ELSE LET x == CHOOSE x \in S : TRUE IN <<x>> \o SetOrder(S \ {x})

\* The root loop with roots.insert(0, wire) for roots.append(wire).
RECURSIVE CollectRoots_prepending(_, _, _)
CollectRoots_prepending(roots, curr_outputs, names) ==
    IF Len(names) = 0 THEN Return(roots)
    ELSE LET got == __getitem__(curr_outputs, names[1])
         IN  IF got.raised # None THEN Raise(got.raised)
             ELSE CollectRoots_prepending(<<got.value>> \o roots, curr_outputs, Tail(names))

\* for wire_name in read_outputs[i]: roots.append(curr_outputs[wire_name])
RECURSIVE CollectRoots(_, _, _)
CollectRoots(roots, curr_outputs, names) ==
    IF Len(names) = 0 THEN Return(roots)
    ELSE LET got == __getitem__(curr_outputs, names[1])
         IN  IF got.raised # None THEN Raise(got.raised)
             ELSE CollectRoots(Append(roots, got.value), curr_outputs, Tail(names))

WireNames(bundle) == {bundle.wires[j].val.name : j \in 1..Len(bundle.wires)}

\* The bundles at_posedge_clk was handed, as they stood when it was called.
Handed(phase, i, curr_state, inputs) ==
    [phase |-> phase, cycle |-> i, curr_state |-> curr_state, inputs |-> inputs]

\* _vcd_init_vars: registers clk, the initial state wires, the inputs of cycle
\* 0 and the outputs of a trial tick of cycle 0. vcd_var_dict is kept as the
\* set of its keys.
VcdInit(raised, vcd_var_dict, handed) ==
    [raised |-> raised, vcd_var_dict |-> vcd_var_dict, handed |-> handed]

vcd_register_outputs(phase, vcd_state_0, vcd_inputs_0, ticked) ==
    IF ticked.raised # None
    THEN VcdInit(ticked.raised, {}, <<Handed(phase, 0, vcd_state_0, vcd_inputs_0)>>)
    ELSE VcdInit(None,
                 WireNames(vcd_state_0) \cup WireNames(vcd_inputs_0)
                     \cup WireNames(ticked.outputs),
                 <<Handed(phase, 0, vcd_state_0, vcd_inputs_0)>>)

vcd_trial_tick(circ, phase, vcd_state_0, vcd_inputs_0) ==
    vcd_register_outputs(phase, vcd_state_0, vcd_inputs_0,
                         at_posedge_clk(circ, vcd_state_0, vcd_inputs_0,
                                        WireBundle(0), WireBundle(0)))

_vcd_init_vars(circ, input_values, phase) ==
    IF 0 \notin DOMAIN input_values THEN VcdInit("KeyError", {}, <<>>)
    ELSE vcd_trial_tick(circ, phase, freeze(_get_initial_state(circ)).self,
                        SetRaw(WireBundle(0), input_values[0]).self)

\* What one pass of the simulation loop leaves behind.
Cycled(raised, handed, bundles, curr_state, roots, log) ==
    [raised |-> raised, handed |-> handed, bundles |-> bundles,
     curr_state |-> curr_state, roots |-> roots, log |-> log]

Bundles(phase, i, inputs, state, next_state, outputs) ==
    [phase |-> phase, cycle |-> i, inputs |-> inputs, state |-> state,
     next_state |-> next_state, outputs |-> outputs]

\* The body of the loop `for i in range(sim_cycles)` that _simulate_raw and
\* _simulate_with_usage share, in the order of its statements; ctx holds what
\* the pass does not change: [circ, phase, i, read_outputs, vcd_var_dict, used].
\* The usage pass collects no roots.
cycle_clock(ctx, curr_inputs, curr_state, new_state, outputs, roots, wout) ==
    IF wout.raised # None
    THEN Cycled(wout.raised, <<Handed(ctx.phase, ctx.i, curr_state, curr_inputs)>>,
                <<Bundles(ctx.phase, ctx.i, curr_inputs, curr_state, new_state, outputs)>>,
                new_state, roots, wout.log)
    ELSE Cycled(None, <<Handed(ctx.phase, ctx.i, curr_state, curr_inputs)>>,
                <<Bundles(ctx.phase, ctx.i, curr_inputs, curr_state, new_state, outputs)>>,
                new_state, roots,
                wout.log \o <<Change("clk", ctx.i * CYCLE_LEN_NS, 1, FALSE),
                              Change("clk", ctx.i * CYCLE_LEN_NS + CYCLE_LEN_NS \div 2,
                                     0, FALSE)>>)

cycle_outputs(ctx, curr_inputs, curr_state, new_state, outputs, roots, log, got) ==
    IF got.raised # None
    THEN Cycled(got.raised, <<Handed(ctx.phase, ctx.i, curr_state, curr_inputs)>>,
                <<Bundles(ctx.phase, ctx.i, curr_inputs, curr_state, new_state, outputs)>>,
                new_state, roots, log)
    ELSE cycle_clock(ctx, curr_inputs, curr_state, new_state, outputs, got.value,
                     update_wires(log, ctx.vcd_var_dict, ctx.used, ctx.i,
                                  DictValues(outputs.wires)))

cycle_roots(ctx, curr_inputs, curr_state, roots, log, ticked) ==
    IF ticked.raised # None
    THEN Cycled(ticked.raised, <<Handed(ctx.phase, ctx.i, curr_state, curr_inputs)>>,
                <<Bundles(ctx.phase, ctx.i, curr_inputs, curr_state,
                          ticked.next_state, ticked.outputs)>>,
                curr_state, roots, log)
    ELSE cycle_outputs(ctx, curr_inputs, curr_state, freeze(ticked.next_state).self,
                       ticked.outputs, roots, log,
                       IF ctx.i \in DOMAIN ctx.read_outputs
                       THEN CollectRoots(roots, ticked.outputs,
                                         SetOrder(ctx.read_outputs[ctx.i]))
                       ELSE Return(roots))

\* The tick with curr_outputs = WireBundle(i - 1): the outputs are stamped a
\* cycle behind the wires they are computed from.
cycle_tick_outputs_behind(ctx, curr_inputs, curr_state, roots, wst) ==
    IF wst.raised # None
    THEN Cycled(wst.raised, <<>>,
                <<Bundles(ctx.phase, ctx.i, curr_inputs, curr_state,
                          WireBundle(ctx.i + 1), WireBundle(ctx.i))>>,
                curr_state, roots, wst.log)
    ELSE cycle_roots(ctx, curr_inputs, curr_state, roots, wst.log,
                     at_posedge_clk(ctx.circ, curr_state, curr_inputs,
                                    WireBundle(ctx.i + 1), WireBundle(ctx.i - 1)))

cycle_tick(ctx, curr_inputs, curr_state, roots, wst) ==
    IF wst.raised # None
    THEN Cycled(wst.raised, <<>>,
                <<Bundles(ctx.phase, ctx.i, curr_inputs, curr_state,
                          WireBundle(ctx.i + 1), WireBundle(ctx.i))>>,
                curr_state, roots, wst.log)
    ELSE cycle_roots(ctx, curr_inputs, curr_state, roots, wst.log,
                     at_posedge_clk(ctx.circ, curr_state, curr_inputs,
                                    WireBundle(ctx.i + 1), WireBundle(ctx.i)))

cycle_update_state(ctx, curr_inputs, curr_state, roots, win) ==
    IF win.raised # None THEN cycle_tick(ctx, curr_inputs, curr_state, roots, win)
    ELSE cycle_tick(ctx, curr_inputs, curr_state, roots,
                    update_wires(win.log, ctx.vcd_var_dict, ctx.used, ctx.i,
                                 DictValues(curr_state.wires)))

cycle_update_inputs(ctx, curr_inputs, curr_state, roots, log) ==
    cycle_update_state(ctx, curr_inputs, curr_state, roots,
                       update_wires(log, ctx.vcd_var_dict, ctx.used, ctx.i,
                                    DictValues(curr_inputs.wires)))

simulate_cycle(ctx, curr_state, input_values, roots, log) ==
    IF ctx.i \notin DOMAIN input_values
    THEN Cycled("KeyError", <<>>, <<>>, curr_state, roots, log)
    ELSE cycle_update_inputs(ctx,
                             freeze(SetRaw(WireBundle(ctx.i), input_values[ctx.i]).self).self,
                             curr_state, roots, log)

\* A membership test that never finds the wire.
ListContains_never(list, x) == FALSE

\* `in_wire in marked` on a list: some element is in_wire itself, or
\* ConcreteWire.__eq__ on the two returns something truthy. __eq__ returns
\* a GraphNode, a tuple of two items, and a non-empty tuple is truthy.
Truthy(tuple) == Len(tuple) > 0

ListContains(list, x) ==
    \E k \in 1..Len(list) : list[k] = x \/ Truthy(__eq__(list[k], x))

\* for in_wire in wire.srcs: if in_wire not in marked: append to both.
RECURSIVE MarkSources(_, _, _)
MarkSources(srcs, marked, stack) ==
    IF Len(srcs) = 0 THEN [marked |-> marked, stack |-> stack]
    ELSE IF ~ListContains(marked, srcs[1])
         THEN MarkSources(Tail(srcs), Append(marked, srcs[1]), Append(stack, srcs[1]))
         ELSE MarkSources(Tail(srcs), marked, stack)

\* ------------------------------------------------------- static graph
\* (src/graph.py) A GraphEdge object is found in the store `edges` under its
\* identity, a string; a vertex is named by its position in the vertex list,
\* and NoVertex stands for None in the src and dest of an edge.
NoVertex == 0

\* GraphEdge(value, width, usage=WireUsage.USED): src and dest default to None.
GraphEdge(value, width, usage) ==
    [value |-> value, width |-> width, usage |-> usage, src |-> NoVertex, dest |-> NoVertex]

\* A GraphVertex of class cls; inputs and outputs are lists of edges.
GraphVertex(cls, name, inputs, outputs) ==
    [cls |-> cls, name |-> name, inputs |-> inputs, outputs |-> outputs]

\* The last vertex of the list that holds edge e on the given side, or None.
LastHolder(vertices, e, side) ==
    LET holders == {k \in 1..Len(vertices) :
                       \E j \in 1..Len(vertices[k][side]) : vertices[k][side][j] = e}
    IN  IF holders = {} THEN NoVertex
        ELSE CHOOSE k \in holders : \A h \in holders : h <= k

\* __post_init__ of every vertex in the order of construction: e.dest = self
\* for e in self.inputs, e.src = self for e in self.outputs.
__post_init__(vertices, store) ==
    [vertices |-> vertices,
     store |-> [e \in DOMAIN store |->
                   [store[e] EXCEPT !.dest = LastHolder(vertices, e, "inputs"),
                                    !.src = LastHolder(vertices, e, "outputs")]]]

\* nand = lambda a, b: int(not bool(a & b & 0b1))
nand(a, bb) == IF BitAnd(BitAnd(a, bb), 1) # 0 THEN 0 ELSE 1

xor_from_nands_wired(a, bb, m1, m2, m3, c) ==
    __post_init__(
        <<GraphVertex("Input1B", "a", <<>>, <<"edge_a_m1", "edge_a_m2">>),
          GraphVertex("Input1B", "b", <<>>, <<"edge_b_m1", "edge_b_m3">>),
          GraphVertex("NandGate1B", "m1", <<"edge_a_m1", "edge_b_m1">>,
                      <<"edge_m1_m2", "edge_m1_m3">>),
          GraphVertex("NandGate1B", "m2", <<"edge_a_m2", "edge_m1_m2">>, <<"edge_m2_c">>),
          GraphVertex("NandGate1B", "m3", <<"edge_m1_m3", "edge_b_m3">>, <<"edge_m3_c">>),
          GraphVertex("NandGate1B", "c", <<"edge_m2_c", "edge_m3_c">>, <<"edge_c_out">>)>>,
        [edge_a_m1 |-> GraphEdge(a, 1, "USED"), edge_b_m1 |-> GraphEdge(bb, 1, "USED"),
         edge_a_m2 |-> GraphEdge(a, 1, "USED"), edge_b_m3 |-> GraphEdge(bb, 1, "USED"),
         edge_m1_m2 |-> GraphEdge(m1, 1, "USED"), edge_m1_m3 |-> GraphEdge(m1, 1, "USED"),
         edge_m2_c |-> GraphEdge(m2, 1, "USED"), edge_m3_c |-> GraphEdge(m3, 1, "USED"),
         edge_c_out |-> GraphEdge(c, 1, "OUTPUT")])

xor_from_nands_toposort(a, bb) ==
    xor_from_nands_wired(a, bb, nand(a, bb), nand(a, nand(a, bb)), nand(bb, nand(a, bb)),
                         nand(nand(a, nand(a, bb)), nand(bb, nand(a, bb))))

\* Two inputs a and b into one gate of class cls whose output edge, of value
\* q, is the graph's output: the shape of zero_and().
gate_graph(cls, name, a, bb, q) ==
    __post_init__(
        <<GraphVertex("Input1B", "a", <<>>, <<"a">>),
          GraphVertex("Input1B", "b", <<>>, <<"b">>),
          GraphVertex(cls, name, <<"a", "b">>, <<"q">>)>>,
        [a |-> GraphEdge(a, 1, "USED"), b |-> GraphEdge(bb, 1, "USED"),
         q |-> GraphEdge(q, 1, "OUTPUT")])

zero_and == gate_graph("AndGate1B", "and", 0, 1, 0)

orphan_inputs ==
    __post_init__(
        <<GraphVertex("Input1B", "a", <<>>, <<"a">>),
          GraphVertex("Input1B", "b", <<>>, <<"b">>),
          GraphVertex("Input1B", "c", <<>>, <<"c">>),
          GraphVertex("Input1B", "d", <<>>, <<"d">>),
          GraphVertex("AndGate1B", "and", <<"a", "b">>, <<"q">>)>>,
        [a |-> GraphEdge(0, 1, "USED"), b |-> GraphEdge(1, 1, "USED"),
         c |-> GraphEdge(0, 1, "USED"), d |-> GraphEdge(1, 1, "USED"),
         q |-> GraphEdge(0, 1, "OUTPUT")])

\* What update_input_usage leaves: the exception it raised (or None) and the
\* edges afterwards.
Updated(raised, store) == [raised |-> raised, store |-> store]

\* self.inputs[k].usage = WireUsage.UNUSED, k counted from 0.
SetUnused(self, store, k) ==
    Updated(None, [store EXCEPT ![self.inputs[k + 1]].usage = "UNUSED"])

\* AndGate1B.update_input_usage with the two inputs exchanged in what it
\* marks UNUSED.
AndGate1B_update_input_usage_swapped(self, store) ==
    LET a == store[self.inputs[1]].value
        bb == store[self.inputs[2]].value
    IN  IF store[self.outputs[1]].value = 1 THEN Updated(None, store)
        ELSE IF a = 0 /\ bb = 0 THEN Updated(None, store)
        ELSE IF a = 0 THEN SetUnused(self, store, 0)
        ELSE IF bb = 0 THEN SetUnused(self, store, 1)
        ELSE Updated("AssertionError", store)

AndGate1B_update_input_usage(self, store) ==
    IF Len(self.inputs) < 2 \/ Len(self.outputs) < 1 THEN Updated("IndexError", store)
    ELSE LET a == store[self.inputs[1]].value
             bb == store[self.inputs[2]].value
         IN  IF store[self.outputs[1]].value = 1 THEN Updated(None, store)
             ELSE IF a = 0 /\ bb = 0 THEN Updated(None, store)
             ELSE IF a = 0 THEN SetUnused(self, store, 1)
             ELSE IF bb = 0 THEN SetUnused(self, store, 0)
             ELSE Updated("AssertionError", store)

\* NandGate1B.update_input_usage with the two inputs exchanged in what it
\* marks UNUSED.
NandGate1B_update_input_usage_swapped(self, store) ==
    LET a == store[self.inputs[1]].value
        bb == store[self.inputs[2]].value
    IN  IF store[self.outputs[1]].value = 0 THEN Updated(None, store)
        ELSE IF a = 0 /\ bb = 0 THEN Updated(None, store)
        ELSE IF a = 0 THEN SetUnused(self, store, 0)
        ELSE IF bb = 0 THEN SetUnused(self, store, 1)
        ELSE Updated("AssertionError", store)

NandGate1B_update_input_usage(self, store) ==
    IF Len(self.inputs) < 2 \/ Len(self.outputs) < 1 THEN Updated("IndexError", store)
    ELSE LET a == store[self.inputs[1]].value
             bb == store[self.inputs[2]].value
         IN  IF store[self.outputs[1]].value = 0 THEN Updated(None, store)
             ELSE IF a = 0 /\ bb = 0 THEN Updated(None, store)
             ELSE IF a = 0 THEN SetUnused(self, store, 1)
             ELSE IF bb = 0 THEN SetUnused(self, store, 0)
             ELSE Updated("AssertionError", store)

\* OrGate1B.update_input_usage with the two inputs exchanged in what it
\* marks UNUSED.
OrGate1B_update_input_usage_swapped(self, store) ==
    LET a == store[self.inputs[1]].value
        bb == store[self.inputs[2]].value
    IN  IF store[self.outputs[1]].value = 0 THEN Updated(None, store)
        ELSE IF a = 1 /\ bb = 1 THEN Updated(None, store)
        ELSE IF a = 1 THEN SetUnused(self, store, 0)
        ELSE IF bb = 1 THEN SetUnused(self, store, 1)
        ELSE Updated("AssertionError", store)

OrGate1B_update_input_usage(self, store) ==
    IF Len(self.inputs) < 2 \/ Len(self.outputs) < 1 THEN Updated("IndexError", store)
    ELSE LET a == store[self.inputs[1]].value
             bb == store[self.inputs[2]].value
         IN  IF store[self.outputs[1]].value = 0 THEN Updated(None, store)
             ELSE IF a = 1 /\ bb = 1 THEN Updated(None, store)
             ELSE IF a = 1 THEN SetUnused(self, store, 1)
             ELSE IF bb = 1 THEN SetUnused(self, store, 0)
             ELSE Updated("AssertionError", store)

\* node.update_input_usage(): Input1B's does nothing.
update_input_usage(self, store) ==
    IF self.cls = "AndGate1B" THEN AndGate1B_update_input_usage(self, store)
    ELSE IF self.cls = "NandGate1B" THEN NandGate1B_update_input_usage(self, store)
    ELSE IF self.cls = "OrGate1B" THEN OrGate1B_update_input_usage(self, store)
    ELSE Updated(None, store)

\* `v in marked` for vertices: some element is v itself, or the dataclass
\* equality of GraphVertex holds: the same class and equal name, inputs and
\* outputs. The names of a graph's vertices differ, so the comparison of two
\* vertices ends at the names; None equals no vertex.
VertexEq(vertices, v, w) ==
    \/ v = w
    \/ /\ v # NoVertex /\ w # NoVertex
       /\ vertices[v].cls = vertices[w].cls
       /\ vertices[v].name = vertices[w].name
       /\ vertices[v].inputs = vertices[w].inputs
       /\ vertices[v].outputs = vertices[w].outputs

VertexIn(vertices, list, v) == \E k \in 1..Len(list) : VertexEq(vertices, list[k], v)

\* The loop over node.inputs without the test of in_wire.usage.
RECURSIVE SweepInputs_ignoring_usage(_, _, _, _, _)
SweepInputs_ignoring_usage(vertices, store, ins, mrk, stk) ==
    IF Len(ins) = 0 THEN [marked |-> mrk, stack |-> stk]
    ELSE IF ~VertexIn(vertices, mrk, store[ins[1]].src)
         THEN SweepInputs_ignoring_usage(vertices, store, Tail(ins),
                                         Append(mrk, store[ins[1]].src),
                                         Append(stk, store[ins[1]].src))
         ELSE SweepInputs_ignoring_usage(vertices, store, Tail(ins), mrk, stk)

\* for in_wire in node.inputs: if in_wire.usage != WireUsage.UNUSED and
\* in_wire.src not in marked: append in_wire.src to marked and to stack.
RECURSIVE SweepInputs(_, _, _, _, _)
SweepInputs(vertices, store, ins, mrk, stk) ==
    IF Len(ins) = 0 THEN [marked |-> mrk, stack |-> stk]
    ELSE IF store[ins[1]].usage # "UNUSED" /\ ~VertexIn(vertices, mrk, store[ins[1]].src)
         THEN SweepInputs(vertices, store, Tail(ins),
                          Append(mrk, store[ins[1]].src), Append(stk, store[ins[1]].src))
         ELSE SweepInputs(vertices, store, Tail(ins), mrk, stk)

\* marked[::-1]
Reversed(list) == [k \in 1..Len(list) |-> list[Len(list) + 1 - k]]

\* ================================================================ state
VARIABLES
    call,          \* OpSpec: the operator call under way, [fn, self, o, args]
    result,        \* OpSpec: what the call returned or raised
    b,             \* BundleSpec: the WireBundle
    last_call,     \* BundleSpec: the last method called on b and what it raised
    returned,      \* BundleSpec: what that call returned
    nodes,         \* GraphSpec: the vertex list, in the order it was built
    edges,         \* GraphSpec: the GraphEdge objects, by identity
    graph_pc,      \* GraphSpec: where main() stands
    node_k,        \* GraphSpec: the position of `for node in nodes`, from 1
    swept_marked,  \* GraphSpec: mark_and_sweep's list marked
    swept_stack,   \* GraphSpec: mark_and_sweep's list stack
    swept,         \* GraphSpec: the list mark_and_sweep returned
    graph_raised,  \* GraphSpec: the exception main() ended with, or None
    circ,          \* Spec: the circuit class dump is called on
    sim_cycles,    \* Spec: dump's argument sim_cycles
    input_values,  \* Spec: dump's argument input_values, cycle -> dict name -> BitVector
    read_outputs,  \* Spec: dump's argument read_outputs, cycle -> set of names
    pc,            \* Spec: where dump stands
    i,             \* Spec: the loop variable of the simulation pass under way
    curr_state,    \* Spec: the current-state bundle of the pass under way
    roots,         \* Spec: the root list of _simulate_raw
    marked,        \* Spec: dump's list marked
    stack,         \* Spec: dump's list stack
    vcd_var_dict,  \* Spec: the names registered with the writer under way
    vcd,           \* Spec: the changes written to the waveform at path
    usage_vcd,     \* Spec: the changes written to the waveform at usage_path
    opened,        \* Spec: the files opened for writing
    trace,         \* Spec (history): the bundles of every loop pass
    transitions,   \* Spec (history): the bundles handed to each at_posedge_clk call
    raised         \* Spec: the exception dump ended with, or None

opVars == <<call, result>>
bundleVars == <<b, last_call, returned>>
graphVars == <<nodes, edges, graph_pc, node_k, swept_marked, swept_stack, swept, graph_raised>>
requestVars == <<circ, sim_cycles, input_values, read_outputs>>
engineVars == <<requestVars, pc, i, curr_state, roots, marked, stack, vcd_var_dict,
                vcd, usage_vcd, opened, trace, transitions, raised>>
vars == <<opVars, bundleVars, graphVars, engineVars>>

Pending == [raised |-> "pending", value |-> None]
NoCall == [fn |-> None]
NoBundle == [cycle |-> -1, wires |-> <<>>, frozen |-> FALSE]
NoArg == [isConcreteWire |-> FALSE]
NoMethod == [op |-> None, key |-> None, arg |-> NoArg, raised |-> None]

OpIdle == call = NoCall /\ result = Pending
BundleIdle == b = NoBundle /\ last_call = NoMethod /\ returned = None

GraphIdle ==
    /\ nodes = <<>> /\ edges = <<>> /\ graph_pc = "idle" /\ node_k = 0
    /\ swept_marked = <<>> /\ swept_stack = <<>> /\ swept = <<>> /\ graph_raised = None

EngineStart ==
    /\ i = 0 /\ curr_state = NoBundle
    /\ roots = <<>> /\ marked = <<>> /\ stack = <<>>
    /\ vcd_var_dict = {} /\ vcd = <<>> /\ usage_vcd = <<>> /\ opened = {}
    /\ trace = <<>> /\ transitions = <<>> /\ raised = None

EngineIdle ==
    /\ circ = None /\ sim_cycles = 0 /\ input_values = <<>> /\ read_outputs = <<>>
    /\ pc = "idle"
    /\ EngineStart

\* ============================================================== OpSpec
\* One call of a ConcreteWire operator on operands drawn from the widths
\* 1..MaxWidth, with up to MaxArgs further data wires for mux.
BitVectors == UNION {{BitVector(v, w) : v \in 0..(Pow2(w) - 1)} : w \in 1..MaxWidth}

Operands(name) == {ConcreteWire(name, bv, 0, <<>>) : bv \in BitVectors}

ArgNames == <<"arg1", "arg2", "arg3", "arg4">>

ArgLists ==
    UNION {{[k \in 1..n |-> ConcreteWire(ArgNames[k], f[k], 0, <<>>)] :
                f \in [1..n -> BitVectors]} : n \in 0..MaxArgs}

BinaryFns == {"__and__", "__or__", "__xor__", "__add__",
              "__lt__", "__le__", "__eq__", "__ne__", "__ge__", "__gt__"}

Calls ==
    [fn : BinaryFns, self : Operands("self"), o : Operands("o"), args : {<<>>}]
    \cup [fn : {"__inv__"}, self : Operands("self"), o : {None}, args : {<<>>}]
    \cup [fn : {"mux"}, self : Operands("self"), o : Operands("on_zero"), args : ArgLists]

OpInit == call \in Calls /\ result = Pending /\ BundleIdle /\ GraphIdle /\ EngineIdle

Calling(fn) == call.fn = fn /\ result = Pending

Finish(r) == result' = r /\ UNCHANGED <<call, bundleVars, graphVars, engineVars>>

Call_and == Calling("__and__") /\ Finish(Return(__and__(call.self, call.o)))
Call_or == Calling("__or__") /\ Finish(Return(__or__(call.self, call.o)))
Call_xor == Calling("__xor__") /\ Finish(Return(__xor__(call.self, call.o)))
Call_add == Calling("__add__") /\ Finish(Return(__add__(call.self, call.o)))
Call_lt == Calling("__lt__") /\ Finish(Return(__lt__(call.self, call.o)))
Call_le == Calling("__le__") /\ Finish(Return(__le__(call.self, call.o)))
Call_eq == Calling("__eq__") /\ Finish(Return(__eq__(call.self, call.o)))
Call_ne == Calling("__ne__") /\ Finish(Return(__ne__(call.self, call.o)))
Call_ge == Calling("__ge__") /\ Finish(Return(__ge__(call.self, call.o)))
Call_gt == Calling("__gt__") /\ Finish(Return(__gt__(call.self, call.o)))
Call_inv == Calling("__inv__") /\ Finish(Return(__inv__(call.self)))
Call_mux == Calling("mux") /\ Finish(mux(call.self, call.o, call.args))

OpNext ==
    \/ Call_and \/ Call_or \/ Call_xor \/ Call_add
    \/ Call_lt \/ Call_le \/ Call_eq \/ Call_ne \/ Call_ge \/ Call_gt
    \/ Call_inv \/ Call_mux

OpSpec == OpInit /\ [][OpNext]_vars

\* --------------------------------------------------- claims on operators
Returned == result.raised = None

\* The wires a returned GraphNode names as sources, as a set.
Sources(node) == {node[2][k] : k \in 1..Len(node[2])}

OneBit(w) == w.bv.width = 1 /\ w.bv.value \in {0, 1}

\* C9: on 1-bit operands (left, right), AND keeps both operands for (0,0) and
\* (1,1), only left for (0,1) and only right for (1,0); OR keeps both for
\* (0,0) and (1,1), only right for (0,1) and only left for (1,0).
C9_AndOrSensitivity ==
    (call.fn \in {"__and__", "__or__"} /\ Returned /\ OneBit(call.self) /\ OneBit(call.o)) =>
        LET l == call.self
            r == call.o
            zeroOnly == IF l.bv.value = 0 THEN {l} ELSE {r}
            oneOnly == IF l.bv.value = 1 THEN {l} ELSE {r}
        IN  Sources(result.value) =
                IF l.bv.value = r.bv.value THEN {l, r}
                ELSE IF call.fn = "__and__" THEN zeroOnly
                ELSE oneOnly

C9_Witness ==
    /\ call.fn = "__and__" /\ Returned
    /\ call.self.bv = BV1(0) /\ call.o.bv = BV1(1)
    /\ result.value[2] = <<call.self>>

\* C10: mux(select, on_zero = X, args = [Y]) with select.value = 0 returns the
\* sources {on_zero} when X.value = Y.value and {select, on_zero} when
\* X.value # Y.value.
C10_MuxDontCare ==
    (call.fn = "mux" /\ result # Pending /\ Len(call.args) = 1 /\ call.self.bv.value = 0) =>
        /\ Returned
        /\ Sources(result.value) =
               IF call.o.bv.value = call.args[1].bv.value
               THEN {call.o}
               ELSE {call.self, call.o}

\* The data candidates of the mux call: on_zero and the wires of args.
Candidates == {call.o} \cup {call.args[k] : k \in 1..Len(call.args)}

\* The candidate the select value k addresses: on_zero for 0, args[k-1] (the
\* k-th of args) otherwise.
Addressed == IF call.self.bv.value = 0 THEN call.o ELSE call.args[call.self.bv.value]

MuxCalled == call.fn = "mux" /\ result # Pending

\* C11: for a select value k that addresses a candidate (on_zero for k = 0,
\* args[k-1] for 1 <= k <= len(args)), mux returns the value and width of
\* that candidate, names it as a source, and names no other data candidate.
C11_MuxSelection ==
    (MuxCalled /\ call.self.bv.value <= Len(call.args)) =>
        /\ Returned
        /\ result.value[1] = Addressed.bv
        /\ Sources(result.value) \cap Candidates = {Addressed}

\* C12: mux fails with an index-range error exactly when the select value is
\* greater than the number of wires in args.
C12_MuxRangeCheck ==
    MuxCalled =>
        IF call.self.bv.value > Len(call.args)
        THEN result.raised \in {"AssertionError", "IndexError"}
        ELSE Returned

\* C13: the BitVector an operator returns (AND, OR, XOR, ADD, comparisons,
\* invert) has 0 <= value < 2^width, and ADD returns (a + b) mod
\* 2^max(w1, w2).
C13_Masked ==
    (call.fn \in BinaryFns \cup {"__inv__"} /\ result # Pending) =>
        /\ Returned
        /\ 0 <= result.value[1].value
        /\ result.value[1].value < Pow2(result.value[1].width)
        /\ call.fn = "__add__" =>
               result.value[1] =
                   BitVector((call.self.bv.value + call.o.bv.value)
                                 % Pow2(Max(call.self.bv.width, call.o.bv.width)),
                             Max(call.self.bv.width, call.o.bv.width))

\* What the call c returns or raises.
ResultOf(c) ==
    IF c.fn = "__and__" THEN Return(__and__(c.self, c.o))
    ELSE IF c.fn = "__or__" THEN Return(__or__(c.self, c.o))
    ELSE IF c.fn = "__xor__" THEN Return(__xor__(c.self, c.o))
    ELSE IF c.fn = "__add__" THEN Return(__add__(c.self, c.o))
    ELSE IF c.fn = "__lt__" THEN Return(__lt__(c.self, c.o))
    ELSE IF c.fn = "__le__" THEN Return(__le__(c.self, c.o))
    ELSE IF c.fn = "__eq__" THEN Return(__eq__(c.self, c.o))
    ELSE IF c.fn = "__ne__" THEN Return(__ne__(c.self, c.o))
    ELSE IF c.fn = "__ge__" THEN Return(__ge__(c.self, c.o))
    ELSE IF c.fn = "__gt__" THEN Return(__gt__(c.self, c.o))
    ELSE mux(c.self, c.o, c.args)

\* The wire w carrying another value v of its own width.
Revalued(w, v) == [w EXCEPT !.bv = BitVector(v, w.bv.width)]

OtherValues(w) == (0..(Pow2(w.bv.width) - 1)) \ {w.bv.value}

\* The calls that differ from `call` in the value of one operand that the
\* result does not name as a source.
Replacements ==
    {[call EXCEPT !.self = Revalued(call.self, v)] :
        v \in IF call.self \in Sources(result.value) THEN {} ELSE OtherValues(call.self)}
    \cup {[call EXCEPT !.o = Revalued(call.o, v)] :
        v \in IF call.o \in Sources(result.value) THEN {} ELSE OtherValues(call.o)}
    \cup UNION {{[call EXCEPT !.args[k] = Revalued(call.args[k], v)] :
                    v \in IF call.args[k] \in Sources(result.value) THEN {}
                          ELSE OtherValues(call.args[k])} : k \in 1..Len(call.args)}

\* C28: for AND, OR, XOR, ADD, the comparisons and mux, on operands of any
\* width up to MaxWidth, giving an operand that is not among the returned
\* sources any other value of its width leaves the returned value unchanged.
C28_PruningIsSound ==
    (call.fn \in BinaryFns \cup {"mux"} /\ result # Pending /\ Returned) =>
        \A c \in Replacements :
            /\ ResultOf(c).raised = None
            /\ ResultOf(c).value[1] = result.value[1]

\* The same on the operators other than OR and on mux calls with a data wire
\* in args.
C28_PruningIsSoundElsewhere ==
    (/\ call.fn \in (BinaryFns \ {"__or__"}) \cup {"mux"} /\ result # Pending /\ Returned
     /\ call.fn = "mux" => Len(call.args) > 0) =>
        \A c \in Replacements :
            /\ ResultOf(c).raised = None
            /\ ResultOf(c).value[1] = result.value[1]

\* ============================================================ BundleSpec
\* One WireBundle, created open for some cycle, under any sequence of the
\* operations a caller can apply to it.
Keys == {"q", "m"}

\* Wires of any cycle to assign or to name as sources.
PoolWires(name) ==
    {ConcreteWire(name, BV1(v), c, <<>>) : v \in {0, 1}, c \in 0..MaxBundleCycle}

\* Result pairs: a raw value with no sources, and what __and__ returns.
PoolNodes ==
    {GraphNode(BV1(v), <<>>) : v \in {0, 1}}
    \cup {__and__(pair[1], pair[2]) :
              pair \in {p \in PoolWires("a") \X PoolWires("b") : p[1].cycle = p[2].cycle}}

Values == {AsWire(w) : w \in PoolWires("a")} \cup {AsNode(n) : n \in PoolNodes}

\* Bare BitVectors, assigned without a source list.
RawValues == {AsBitVector(BV1(v)) : v \in {0, 1}}

Others ==
    {<<>>}
    \cup {<<[key |-> k, val |-> v]>> : k \in Keys, v \in Values}
    \cup {<<[key |-> "q", val |-> v], [key |-> "m", val |-> v]>> :
              v \in {AsNode(GraphNode(BV1(1), <<>>))}}

BundleInit ==
    /\ b \in {WireBundle(c) : c \in 0..MaxBundleCycle}
    /\ last_call = NoMethod /\ returned = None
    /\ OpIdle /\ GraphIdle /\ EngineIdle

InBundleSpec == b.cycle >= 0

\* The call op(key, arg) has acted on b with outcome r.
CalledWith(op, key, arg, r) ==
    /\ InBundleSpec
    /\ b' = r.self
    /\ last_call' = [op |-> op, key |-> key, arg |-> arg, raised |-> r.raised]
    /\ returned' = r.value
    /\ UNCHANGED <<opVars, graphVars, engineVars>>

Called(op, key, r) == CalledWith(op, key, NoArg, r)

GetItem == \E key \in Keys : Called("__getitem__", key, __getitem__(b, key))

SetItem == \E key \in Keys, value \in Values \cup RawValues :
    CalledWith("__setitem__", key, value, __setitem__(b, key, value))

DelItem == \E key \in Keys : Called("__delitem__", key, __delitem__(b, key))

Freeze == Called("freeze", None, freeze(b))

Pop == \E key \in Keys : Called("pop", key, pop(b, key))

PopItem == Called("popitem", None, popitem(b))

Clear == Called("clear", None, clear(b))

Update == \E other \in Others : Called("update", None, update(b, other))

SetDefault == \E key \in Keys, default \in Values :
    Called("setdefault", key, setdefault(b, key, default))

BundleNext ==
    \/ GetItem \/ SetItem \/ DelItem \/ Freeze
    \/ Pop \/ PopItem \/ Clear \/ Update \/ SetDefault

BundleSpec == BundleInit /\ [][BundleNext]_vars

\* ----------------------------------------------------- claims on bundles
\* C5: an item assignment on a frozen bundle raises and leaves the mapping
\* from names to wires as it was.
C5_FrozenAssignmentFails ==
    [][(b.frozen /\ last_call'.op = "__setitem__") =>
           (last_call'.raised = "KeyError" /\ b'.wires = b.wires)]_vars

C5_Witness ==
    /\ b.frozen /\ Len(b.wires) > 0
    /\ last_call.op = "__setitem__" /\ last_call.raised = "KeyError"

\* C6: once a bundle is frozen, no mapping operation (item assignment, item
\* deletion, pop, popitem, clear, update, setdefault) changes its mapping
\* from names to wires.
C6_FrozenImmutable == [][b.frozen => b'.wires = b.wires]_vars

\* C7: a new bundle is open; freeze() leaves it frozen, returns the bundle
\* and changes nothing else; freeze() on a frozen bundle changes nothing; no
\* operation takes a frozen bundle back to open.
C7_OneWayLifecycle ==
    /\ InBundleSpec => ~b.frozen
    /\ [][/\ b.frozen => b'.frozen
          /\ last_call'.op = "freeze" =>
                 /\ last_call'.raised = None
                 /\ b' = [b EXCEPT !.frozen = TRUE]
                 /\ returned' = b']_vars

C7_Witness ==
    /\ b.frozen /\ Len(b.wires) > 0
    /\ last_call.op = "freeze" /\ last_call.raised = None

\* The wire stored under the assigned name once the assignment has acted.
Stored == DictGet(b'.wires, last_call'.key)

\* An item assignment of a bare BitVector or of a result pair acts on the
\* open bundle b.
AssignsOpen ==
    /\ InBundleSpec /\ ~b.frozen /\ last_call'.op = "__setitem__"
    /\ ~last_call'.arg.isConcreteWire

\* C24: on an open bundle of cycle c, assigning a raw BitVector under a name
\* succeeds and stores a wire of that value, cycle c and no sources;
\* assigning a result pair (bv, srcs) stores a wire of value bv, cycle c and
\* sources exactly srcs.
C24_AssignmentWraps ==
    [][AssignsOpen =>
           /\ last_call'.raised = None
           /\ DictHas(b'.wires, last_call'.key)
           /\ Stored = IF Subscriptable(last_call'.arg)
                       THEN ConcreteWire(last_call'.key, last_call'.arg.node[1], b.cycle,
                                         last_call'.arg.node[2])
                       ELSE ConcreteWire(last_call'.key, last_call'.arg.bv, b.cycle, <<>>)]_vars

\* The part of C24 on result pairs alone.
C24_PairWraps ==
    [][(AssignsOpen /\ Subscriptable(last_call'.arg)) =>
           /\ last_call'.raised = None
           /\ DictHas(b'.wires, last_call'.key)
           /\ Stored = ConcreteWire(last_call'.key, last_call'.arg.node[1], b.cycle,
                                    last_call'.arg.node[2])]_vars

\* =================================================================== Spec
\* Circuit.dump(path, sim_cycles, input_values, read_outputs) on a fixture
\* circuit, for up to MaxCycles cycles; the cycle counts below 1 are -1 and 0.
\* The input mapping gives every cycle a value for each input the circuit
\* reads, or lacks one cycle, or names one wire more in one cycle.
InputNames(c) ==
    IF c = "AndGate1B" THEN <<"a", "b">>
    ELSE IF c = "XorFeedback" THEN <<"a">>
    ELSE <<"a", "sel">>

\* The dicts {name: BV1(value)} over a circuit's input names.
InputDicts(c) ==
    {[k \in 1..Len(InputNames(c)) |-> [key |-> InputNames(c)[k], val |-> BV1(f[k])]] :
         f \in [1..Len(InputNames(c)) -> {0, 1}]}

InputValues(c, n) == [0..(n - 1) -> InputDicts(c)]

\* Requests whose input mapping is not the plain one, each on one input dict
\* d repeated: MissingCycle has no entry for one cycle k < n; LateName gives
\* one cycle k an input wire more, named "late".
MissingCycle(c, n) ==
    UNION {[(0..(n - 1)) \ {k} -> {d}] : k \in 0..(n - 1), d \in InputDicts(c)}

LateName(c, n) ==
    {[j \in 0..(n - 1) |->
         IF j = k THEN Append(d, [key |-> "late", val |-> BV1(0)]) ELSE d] :
        k \in 0..(n - 1), d \in InputDicts(c)}

ReadOutputs(n) == UNION {[D -> {{"q"}}] : D \in SUBSET (0..(n - 1))}

Init ==
    /\ circ \in Circuits
    /\ sim_cycles \in -1..MaxCycles
    /\ input_values \in InputValues(circ, sim_cycles) \cup MissingCycle(circ, sim_cycles)
                            \cup LateName(circ, sim_cycles)
    /\ read_outputs \in ReadOutputs(sim_cycles)
    /\ pc = "dump"
    /\ EngineStart
    /\ OpIdle /\ BundleIdle /\ GraphIdle

NotUsed == [on |-> FALSE, list |-> {}]

\* What a pass of a simulation loop reads and does not change.
Ctx(phase, reads, used) ==
    [circ |-> circ, phase |-> phase, i |-> i, read_outputs |-> reads,
     vcd_var_dict |-> vcd_var_dict, used |-> used]

Fails(exc) == pc' = "raised" /\ raised' = exc

\* dump with open(path, "w") ahead of the assert on sim_cycles.
DumpStart_opening_first ==
    /\ pc = "dump"
    /\ opened' = opened \cup {"path"}
    /\ IF sim_cycles > 0
       THEN pc' = "vcd_init" /\ UNCHANGED raised
       ELSE Fails("AssertionError")
    /\ UNCHANGED <<opVars, bundleVars, graphVars, requestVars, i, curr_state, roots, marked, stack,
                   vcd_var_dict, vcd, usage_vcd, trace, transitions>>

\* assert sim_cycles > 0, then open(path, "w") and its VCDWriter.
DumpStart ==
    /\ pc = "dump"
    /\ IF sim_cycles > 0
       THEN pc' = "vcd_init" /\ opened' = opened \cup {"path"} /\ UNCHANGED raised
       ELSE Fails("AssertionError") /\ UNCHANGED opened
    /\ UNCHANGED <<opVars, bundleVars, graphVars, requestVars, i, curr_state, roots, marked, stack,
                   vcd_var_dict, vcd, usage_vcd, trace, transitions>>

\* _simulate_raw up to its loop: roots = [], _vcd_init_vars, the initial state.
RawStarted(init) ==
    /\ transitions' = transitions \o init.handed
    /\ IF init.raised = None
       THEN /\ vcd_var_dict' = init.vcd_var_dict
            /\ curr_state' = freeze(_get_initial_state(circ)).self
            /\ roots' = <<>> /\ i' = 0
            /\ pc' = "simulate" /\ UNCHANGED raised
       ELSE /\ Fails(init.raised)
            /\ UNCHANGED <<vcd_var_dict, curr_state, roots, i>>

SimulateRawStart ==
    /\ pc = "vcd_init"
    /\ RawStarted(_vcd_init_vars(circ, input_values, "vcd_init"))
    /\ UNCHANGED <<opVars, bundleVars, graphVars, requestVars, marked, stack, vcd, usage_vcd,
                   opened, trace>>

\* A pass of the loop of _simulate_raw without `curr_state = next_state.freeze()`.
RawCycled_holding_state(r) ==
    /\ transitions' = transitions \o r.handed
    /\ trace' = trace \o r.bundles
    /\ curr_state' = curr_state
    /\ roots' = r.roots
    /\ vcd' = r.log
    /\ IF r.raised = None
       THEN i' = i + 1 /\ UNCHANGED <<pc, raised>>
       ELSE Fails(r.raised) /\ UNCHANGED i

\* One pass of the loop of _simulate_raw.
RawCycled(r) ==
    /\ transitions' = transitions \o r.handed
    /\ trace' = trace \o r.bundles
    /\ curr_state' = r.curr_state
    /\ roots' = r.roots
    /\ vcd' = r.log
    /\ IF r.raised = None
       THEN i' = i + 1 /\ UNCHANGED <<pc, raised>>
       ELSE Fails(r.raised) /\ UNCHANGED i

SimulateRawCycle ==
    /\ pc = "simulate" /\ i < sim_cycles
    /\ RawCycled(simulate_cycle(Ctx("raw", read_outputs, NotUsed),
                                curr_state, input_values, roots, vcd))
    /\ UNCHANGED <<opVars, bundleVars, graphVars, requestVars, marked, stack, vcd_var_dict,
                   usage_vcd, opened>>

\* The loop is over: the last clock edge, return roots; dump copies roots
\* into marked and stack.
SimulateRawReturn ==
    /\ pc = "simulate" /\ i = sim_cycles
    /\ vcd' = Append(vcd, Change("clk", ((i - 1) + 1) * CYCLE_LEN_NS, 1, FALSE))
    /\ marked' = roots
    /\ stack' = roots
    /\ pc' = "mark"
    /\ UNCHANGED <<opVars, bundleVars, graphVars, requestVars, i, curr_state, roots, vcd_var_dict,
                   usage_vcd, opened, trace, transitions, raised>>

\* One pass of `while len(stack) != 0`.
Swept(r) == marked' = r.marked /\ stack' = r.stack

MarkStep ==
    /\ pc = "mark" /\ Len(stack) # 0
    /\ Swept(MarkSources(stack[Len(stack)].srcs, marked, SubSeq(stack, 1, Len(stack) - 1)))
    /\ UNCHANGED <<opVars, bundleVars, graphVars, requestVars, pc, i, curr_state, roots,
                   vcd_var_dict, vcd, usage_vcd, opened, trace, transitions, raised>>

\* The stack is empty: open(f"usage_{path}", "w") and its VCDWriter.
MarkDone ==
    /\ pc = "mark" /\ Len(stack) = 0
    /\ opened' = opened \cup {"usage_path"}
    /\ pc' = "usage_init"
    /\ UNCHANGED <<opVars, bundleVars, graphVars, requestVars, i, curr_state, roots, marked, stack,
                   vcd_var_dict, vcd, usage_vcd, trace, transitions, raised>>

used_lookup_list == {<<marked[k].name, marked[k].cycle>> : k \in 1..Len(marked)}

\* _simulate_with_usage without its own `curr_state = ..._get_initial_state()`:
\* the pass starts from the state the first simulation ended in.
UsageStarted_keeping_state(init) ==
    /\ transitions' = transitions \o init.handed
    /\ IF init.raised = None
       THEN /\ vcd_var_dict' = init.vcd_var_dict
            /\ curr_state' = curr_state
            /\ i' = 0
            /\ pc' = "usage" /\ UNCHANGED raised
       ELSE /\ Fails(init.raised)
            /\ UNCHANGED <<vcd_var_dict, curr_state, i>>

\* _simulate_with_usage up to its loop.
UsageStarted(init) ==
    /\ transitions' = transitions \o init.handed
    /\ IF init.raised = None
       THEN /\ vcd_var_dict' = init.vcd_var_dict
            /\ curr_state' = freeze(_get_initial_state(circ)).self
            /\ i' = 0
            /\ pc' = "usage" /\ UNCHANGED raised
       ELSE /\ Fails(init.raised)
            /\ UNCHANGED <<vcd_var_dict, curr_state, i>>

SimulateWithUsageStart ==
    /\ pc = "usage_init"
    /\ UsageStarted(_vcd_init_vars(circ, input_values, "usage_init"))
    /\ UNCHANGED <<opVars, bundleVars, graphVars, requestVars, roots, marked, stack, vcd, usage_vcd,
                   opened, trace>>

\* One pass of the loop of _simulate_with_usage.
UsageCycled(r) ==
    /\ transitions' = transitions \o r.handed
    /\ trace' = trace \o r.bundles
    /\ curr_state' = r.curr_state
    /\ usage_vcd' = r.log
    /\ IF r.raised = None
       THEN i' = i + 1 /\ UNCHANGED <<pc, raised>>
       ELSE Fails(r.raised) /\ UNCHANGED i

SimulateWithUsageCycle ==
    /\ pc = "usage" /\ i < sim_cycles
    /\ UsageCycled(simulate_cycle(Ctx("usage", <<>>, [on |-> TRUE, list |-> used_lookup_list]),
                                  curr_state, input_values, <<>>, usage_vcd))
    /\ UNCHANGED <<opVars, bundleVars, graphVars, requestVars, roots, marked, stack, vcd_var_dict,
                   vcd, opened>>

\* The usage loop is over: the last clock edge, and dump returns marked.
DumpReturn ==
    /\ pc = "usage" /\ i = sim_cycles
    /\ usage_vcd' = Append(usage_vcd, Change("clk", ((i - 1) + 1) * CYCLE_LEN_NS, 1, FALSE))
    /\ pc' = "done"
    /\ UNCHANGED <<opVars, bundleVars, graphVars, requestVars, i, curr_state, roots, marked, stack,
                   vcd_var_dict, vcd, opened, trace, transitions, raised>>

Next ==
    \/ DumpStart
    \/ SimulateRawStart \/ SimulateRawCycle \/ SimulateRawReturn
    \/ MarkStep \/ MarkDone
    \/ SimulateWithUsageStart \/ SimulateWithUsageCycle \/ DumpReturn

Spec == Init /\ [][Next]_vars

\* -------------------------------------------------------- claims on dump
Done == pc = "done"

\* Wire identity for liveness: (name, cycle).
Id(w) == <<w.name, w.cycle>>

Ids(list) == {Id(list[k]) : k \in 1..Len(list)}

SrcsOf(w) == {w.srcs[k] : k \in 1..Len(w.srcs)}

\* The wires reachable from W along srcs edges, W included.
RECURSIVE ReachableFrom(_)
ReachableFrom(W) ==
    IF UNION {SrcsOf(w) : w \in W} \subseteq W THEN W
    ELSE ReachableFrom(W \cup UNION {SrcsOf(w) : w \in W})

Roots == {roots[k] : k \in 1..Len(roots)}

\* The dict {name: BV1(value)} in the order of the circuit's input names.
Inputs(c, values) ==
    [k \in 1..Len(InputNames(c)) |-> [key |-> InputNames(c)[k], val |-> BV1(values[k])]]

\* C1: the list dump returns holds exactly the wires reachable from the
\* roots along srcs edges, wires taken by (name, cycle).
C1_MarkedIsReachable == Done => Ids(marked) = {Id(w) : w \in ReachableFrom(Roots)}

\* _simulate_raw's roots for other input values, all else as in this run.
RECURSIVE RawLoop(_, _, _, _)
RECURSIVE RawLooped(_, _, _)
RawLoop(k, state, inputs, rts) ==
    IF k = sim_cycles THEN Return(rts)
    ELSE RawLooped(k, inputs,
                   simulate_cycle([circ |-> circ, phase |-> "raw", i |-> k,
                                   read_outputs |-> read_outputs,
                                   vcd_var_dict |-> vcd_var_dict, used |-> NotUsed],
                                  state, inputs, rts, <<>>))
RawLooped(k, inputs, r) ==
    IF r.raised # None THEN Raise(r.raised)
    ELSE RawLoop(k + 1, r.curr_state, inputs, r.roots)

RootsOfRun(inputs) == RawLoop(0, freeze(_get_initial_state(circ)).self, inputs, <<>>)

RootValues(rts) == [k \in 1..Len(rts) |-> <<rts[k].name, rts[k].cycle, rts[k].bv>>]

\* The runs that differ from this one only in primary inputs whose
\* (name, cycle) is not marked.
OnlyDeadDiffer(alt) ==
    \A c \in DOMAIN input_values : \A k \in 1..Len(input_values[c]) :
        alt[c][k].val # input_values[c][k].val =>
            <<input_values[c][k].key, c>> \notin Ids(marked)

SameRootValues(other) ==
    other.raised = None /\ RootValues(other.value) = RootValues(roots)

\* C2: a run that differs from a completed run only in primary inputs absent
\* from its marked set gives every root wire the same value.
C2_DeadInputsDoNotInfluence ==
    (Done /\ input_values \in InputValues(circ, sim_cycles)) =>
        \A alt \in InputValues(circ, sim_cycles) :
            OnlyDeadDiffer(alt) => SameRootValues(RootsOfRun(alt))

ScenarioA ==
    /\ circ = "AndGate1B" /\ sim_cycles = 1
    /\ input_values = [c \in {0} |-> Inputs("AndGate1B", <<1, 0>>)]
    /\ read_outputs = [c \in {0} |-> {"q"}]

\* C3: AndGate1B for 1 cycle with a = 1, b = 0, q observed at cycle 0:
\* q.value = 0, q's sources are {b}, and the liveness result is exactly
\* {(b,0), (q,0)}.
C3_ScenarioA ==
    (Done /\ ScenarioA) =>
        /\ Len(roots) = 1 /\ roots[1].name = "q" /\ roots[1].bv.value = 0
        /\ {Id(w) : w \in SrcsOf(roots[1])} = {<<"b", 0>>}
        /\ Ids(marked) = {<<"b", 0>>, <<"q", 0>>}

ScenarioB ==
    /\ circ = "XorFeedback" /\ sim_cycles = 2
    /\ input_values = [c \in {0, 1} |-> Inputs("XorFeedback", <<1>>)]
    /\ read_outputs = [c \in {1} |-> {"q"}]

\* C4: XorFeedback for 2 cycles with a = 1 on both, q observed at cycle 1
\* only: the liveness result holds (a,0), (m,0) and the register value of
\* cycle 1, and does not hold (a,1).
C4_ScenarioB ==
    (Done /\ ScenarioB) =>
        /\ {<<"a", 0>>, <<"m", 0>>, <<"m", 1>>} \subseteq Ids(marked)
        /\ <<"a", 1>> \notin Ids(marked)

\* C14: a dump with sim_cycles < 1 ends with the assertion error, having
\* opened no file, written no waveform, built no bundle and called
\* at_posedge_clk not once.
C14_FailFast ==
    (sim_cycles < 1 /\ pc \notin {"dump", "idle"}) =>
        /\ pc = "raised" /\ raised = "AssertionError"
        /\ opened = {} /\ vcd = <<>> /\ usage_vcd = <<>> /\ vcd_var_dict = {}
        /\ trace = <<>> /\ transitions = <<>> /\ curr_state = NoBundle

C14_Witness == sim_cycles < 1 /\ pc = "raised" /\ raised = "AssertionError" /\ opened = {}

\* C15: at the end of a run, the next-state bundle and the output bundle of
\* every pass are frozen, and an assignment to the output bundle of any cycle
\* fails.
C15_PostTransitionFreeze ==
    Done => \A k \in 1..Len(trace) :
                /\ trace[k].next_state.frozen
                /\ trace[k].outputs.frozen
                /\ __setitem__(trace[k].outputs, "q",
                               AsNode(GraphNode(BV1(1), <<>>))).raised = "KeyError"

\* _simulate_raw has returned its roots.
RawReturned == pc \in {"mark", "usage_init", "usage", "done"}

\* The (name, cycle) pairs read_outputs names within the cycles of the run.
Observed ==
    UNION {{<<name, c>> : name \in read_outputs[c]} :
               c \in DOMAIN read_outputs \cap 0..(sim_cycles - 1)}

\* The bundles of the pass of _simulate_raw for cycle c.
RawPass(c) == trace[CHOOSE k \in 1..Len(trace) : trace[k].phase = "raw" /\ trace[k].cycle = c]

\* C16: the roots _simulate_raw returns are, once each and in ascending order
\* of cycle, the wires that the output bundles of the observed cycles hold
\* under the observed names, and no other wire.
C16_RootCollection ==
    RawReturned =>
        /\ Len(roots) = Cardinality(Observed)
        /\ Ids(roots) = Observed
        /\ \A k \in 1..Len(roots) :
               roots[k] = DictGet(RawPass(roots[k].cycle).outputs.wires, roots[k].name)
        /\ \A j, k \in 1..Len(roots) : j < k => roots[j].cycle <= roots[k].cycle

C16_Witness ==
    /\ Done /\ sim_cycles = 3 /\ DOMAIN read_outputs = {0, 2}
    /\ Len(roots) = 2 /\ roots[1].cycle = 0 /\ roots[2].cycle = 2

\* A run of dump as a function of its request (circ, sim_cycles, input_values,
\* read_outputs) alone: the loop of a simulation pass from cycle k on, ...
RECURSIVE SimulationFrom(_, _, _, _, _)
RECURSIVE SimulationAfter(_, _, _, _)
SimulationFrom(ctx, state, rts, log, tr) ==
    IF ctx.i = sim_cycles THEN [raised |-> None, roots |-> rts, trace |-> tr]
    ELSE SimulationAfter(ctx, log, tr, simulate_cycle(ctx, state, input_values, rts, log))
SimulationAfter(ctx, log, tr, r) ==
    IF r.raised # None THEN [raised |-> r.raised, roots |-> r.roots, trace |-> tr \o r.bundles]
    ELSE SimulationFrom([ctx EXCEPT !.i = ctx.i + 1], r.curr_state, r.roots, r.log,
                        tr \o r.bundles)

\* ... a whole pass, from _vcd_init_vars and the initial state, ...
Simulation(phase, reads, used, init) ==
    IF init.raised # None THEN [raised |-> init.raised, roots |-> <<>>, trace |-> <<>>]
    ELSE SimulationFrom([circ |-> circ, phase |-> phase, i |-> 0, read_outputs |-> reads,
                         vcd_var_dict |-> init.vcd_var_dict, used |-> used],
                        freeze(_get_initial_state(circ)).self, <<>>, <<>>, <<>>)

\* ... the mark loop run to its end, ...
RECURSIVE MarkAll(_, _)
MarkAllAfter(r) == MarkAll(r.marked, r.stack)
MarkAll(mrk, stk) ==
    IF Len(stk) = 0 THEN mrk
    ELSE MarkAllAfter(MarkSources(stk[Len(stk)].srcs, mrk, SubSeq(stk, 1, Len(stk) - 1)))

\* ... and dump: _simulate_raw, the mark loop, _simulate_with_usage.
DumpUsage(raw, mrk) ==
    [trace |-> raw.trace
                   \o Simulation("usage", <<>>, [on |-> TRUE, list |-> Ids(mrk)],
                                 _vcd_init_vars(circ, input_values, "usage_init")).trace,
     marked |-> mrk]
DumpMarked(raw) == DumpUsage(raw, MarkAll(raw.roots, raw.roots))
DumpOfRequest ==
    DumpMarked(Simulation("raw", read_outputs, NotUsed,
                          _vcd_init_vars(circ, input_values, "vcd_init")))

FairSpec == Spec /\ WF_vars(MarkStep) /\ WF_vars(MarkDone)

NoIdTwice(list) ==
    \A j, k \in 1..Len(list) : Id(list[j]) = Id(list[k]) => j = k

\* One pass of the mark loop pops the top of the stack and appends the same
\* wires to marked and to the stack, none of them under a (name, cycle) that
\* marked already holds or twice.
PushedOnce ==
    (pc = "mark" /\ pc' = "mark") =>
        /\ Len(stack) > 0 /\ Len(marked') >= Len(marked)
        /\ SubSeq(marked', 1, Len(marked)) = marked
        /\ stack' = SubSeq(stack, 1, Len(stack) - 1)
                        \o SubSeq(marked', Len(marked) + 1, Len(marked'))
        /\ Ids(SubSeq(marked', Len(marked) + 1, Len(marked'))) \cap Ids(marked) = {}
        /\ NoIdTwice(marked')

\* C18: the mark loop of dump ends, and no (name, cycle) is appended to
\* marked or pushed on the stack more than once.
C18_MarkTerminates ==
    /\ [](NoIdTwice(marked) /\ Ids(stack) \subseteq Ids(marked))
    /\ [][PushedOnce]_vars
    /\ (pc = "mark") ~> (pc = "usage_init")

\* The loop has ended after popping a root that has sources.
C18_Witness ==
    /\ pc = "usage_init" /\ Len(stack) = 0 /\ Len(marked) = 2
    /\ Len(marked[2].srcs) > 0

\* C23: at every call of at_posedge_clk made during dump (the cycle-0 pass
\* that registers the waveform variables and the usage replay included), the
\* current-state bundle and the input bundle handed to it are frozen.
C23_PreTransitionFreeze ==
    \A k \in 1..Len(transitions) :
        transitions[k].curr_state.frozen /\ transitions[k].inputs.frozen

\* The same for the calls made by the two simulation loops alone.
C23_LoopFreeze ==
    \A k \in 1..Len(transitions) :
        transitions[k].phase \in {"raw", "usage"} =>
            transitions[k].curr_state.frozen /\ transitions[k].inputs.frozen

\* The input mapping has no entry for some cycle below sim_cycles.
MissingEntry == \E k \in 0..(sim_cycles - 1) : k \notin DOMAIN input_values

\* C25: when the input mapping lacks an entry for some cycle k < sim_cycles,
\* dump fails with at_posedge_clk called for no cycle and no change written
\* to a waveform; it does not simulate the cycles 0..k-1 first.
C25_NoPartialRun ==
    MissingEntry =>
        /\ pc \in {"dump", "vcd_init", "raised"}
        /\ transitions = <<>> /\ trace = <<>>
        /\ vcd = <<>> /\ usage_vcd = <<>>

\* The same when the missing entry is that of cycle 0.
C25_NoRunWithoutCycle0 ==
    (MissingEntry /\ 0 \notin DOMAIN input_values) =>
        /\ pc \in {"dump", "vcd_init", "raised"}
        /\ transitions = <<>> /\ trace = <<>>
        /\ vcd = <<>> /\ usage_vcd = <<>>

\* The simulation of the request with no waveform behind it: no variable is
\* looked up and no change is written, so update_wire finds every name.
EveryName == {"a", "b", "sel", "m", "q", "late"}

Unwritten == Simulation("raw", read_outputs, NotUsed, VcdInit(None, EveryName, <<>>))

Ended == sim_cycles >= 1 /\ pc \in {"done", "raised"}

\* Whether the run completed, its roots and its marked list are those of
\* the simulation r.
SameOutcome(r) ==
    /\ (pc = "done") = (r.raised = None)
    /\ pc = "done" => (roots = r.roots /\ marked = MarkAll(r.roots, r.roots))

\* C27: whether a run of dump completes, and the roots and the marked list
\* it yields, are those of the same simulation without waveform writes; a
\* wire whose name first appears after cycle 0 does not abort the run.
C27_WaveformIsSideEffect == Ended => SameOutcome(Unwritten)

\* The same for the requests that name in every cycle only the input wires
\* of cycle 0.
C27_SameWhenNamesKnown ==
    (Ended /\ \A c \in DOMAIN input_values :
                 0 \in DOMAIN input_values
                 /\ DictKeys(input_values[c]) \subseteq DictKeys(input_values[0]))
        => SameOutcome(Unwritten)

\* The wires initial_state_values() stands for: cycle 0, no sources.
InitialWires ==
    [j \in 1..Len(initial_state_values(circ)) |->
        ConcreteWire(initial_state_values(circ)[j].key, initial_state_values(circ)[j].val,
                     0, <<>>)]

\* The current state handed to the call h is the next state that the pass
\* of the cycle before, in the same simulation, left behind.
Threaded(h) ==
    \E j \in 1..Len(trace) :
        /\ trace[j].phase = h.phase /\ trace[j].cycle = h.cycle - 1
        /\ trace[j].next_state = h.curr_state
        /\ h.curr_state.cycle = h.cycle

\* No wire written to next_state in the pass t is in the current state
\* handed to h.
Unseen(t, h) ==
    Ids(DictValues(t.next_state.wires)) \cap Ids(DictValues(h.curr_state.wires)) = {}

\* C22: at_posedge_clk of cycle 0 receives as current state exactly the wires
\* of initial_state_values(), of cycle 0 and without sources; that of a cycle
\* i >= 1 receives the next-state bundle the call of cycle i-1 filled, of
\* cycle i; and no call of a cycle up to i receives a wire written to
\* next_state during cycle i.
C22_StateThreading ==
    \A k \in 1..Len(transitions) :
        /\ transitions[k].cycle = 0 =>
               /\ DictValues(transitions[k].curr_state.wires) = InitialWires
               /\ transitions[k].curr_state.cycle = 0
        /\ transitions[k].cycle >= 1 => Threaded(transitions[k])
        /\ \A j \in 1..Len(trace) :
               transitions[k].cycle <= trace[j].cycle => Unseen(trace[j], transitions[k])

C22_Witness ==
    /\ Done /\ circ = "XorFeedback" /\ sim_cycles = 3
    /\ \E k \in 1..Len(transitions) :
           /\ transitions[k].phase = "raw" /\ transitions[k].cycle = 2
           /\ Threaded(transitions[k])
           /\ DictGet(transitions[k].curr_state.wires, "m").bv = BV1(1)
           /\ Len(DictGet(transitions[k].curr_state.wires, "m").srcs) = 2

\* The wires of the bundles of every pass, and every wire they lead to
\* along srcs.
WiresOf(bundle) == {bundle.wires[j].val : j \in 1..Len(bundle.wires)}

TraceWires ==
    ReachableFrom(UNION {WiresOf(trace[k].inputs) \cup WiresOf(trace[k].state)
                             \cup WiresOf(trace[k].next_state) \cup WiresOf(trace[k].outputs) :
                         k \in 1..Len(trace)})

\* The (name, cycle) pairs that w leads to along one or more srcs edges.
Upstream(w) == {Id(s) : s \in ReachableFrom(SrcsOf(w))}

\* C26: every wire of a run has only sources of its own cycle or an earlier
\* one: the next-state wires of cycle i+1 point to wires of cycle i, the
\* output wires of cycle i to wires of cycle i; and no (name, cycle) leads
\* back to itself.
C26_NoFutureProvenance ==
    /\ \A w \in TraceWires :
           /\ \A s \in SrcsOf(w) : s.cycle <= w.cycle
           /\ Id(w) \notin Upstream(w)
    /\ \A k \in 1..Len(trace) :
           /\ \A w \in WiresOf(trace[k].next_state) :
                  w.cycle = trace[k].cycle + 1 /\ \A s \in SrcsOf(w) : s.cycle = trace[k].cycle
           /\ \A w \in WiresOf(trace[k].outputs) :
                  w.cycle = trace[k].cycle /\ \A s \in SrcsOf(w) : s.cycle = trace[k].cycle

C26_Witness ==
    /\ Done /\ circ = "AndFeedback" /\ sim_cycles = 3
    /\ \E w \in WiresOf(trace[3].next_state) :
           /\ w.cycle = 3 /\ <<"a", 0>> \in Upstream(w)
           /\ \A s \in SrcsOf(w) : s.cycle = 2

\* ================================================================ LibSpec
\* Bundles as the engine fills them and as any caller may: the behaviours of
\* Spec and of BundleSpec.
LibInit == Init \/ BundleInit

LibNext == Next \/ BundleNext

LibSpec == LibInit /\ [][LibNext]_vars

\* Every wire of the bundle has the bundle's cycle, and the name it is
\* stored under.
Stamped(bundle) ==
    \A j \in 1..Len(bundle.wires) :
        /\ bundle.wires[j].val.cycle = bundle.cycle
        /\ bundle.wires[j].val.name = bundle.wires[j].key

\* C8: every wire stored in a WireBundle has the bundle's cycle and the name
\* of its key, whatever was assigned; so the wires the engine emits on cycle
\* i (inputs, current state, outputs) have cycle i, and update_wire's
\* assertion does not fail.
C8_WiresStamped ==
    /\ Stamped(b)
    /\ Stamped(curr_state)
    /\ \A k \in 1..Len(trace) :
           /\ Stamped(trace[k].inputs) /\ trace[k].inputs.cycle = trace[k].cycle
           /\ Stamped(trace[k].state) /\ trace[k].state.cycle = trace[k].cycle
           /\ Stamped(trace[k].outputs) /\ trace[k].outputs.cycle = trace[k].cycle
           /\ Stamped(trace[k].next_state) /\ trace[k].next_state.cycle = trace[k].cycle + 1
    /\ raised = "AssertionError" => sim_cycles <= 0

\* A bundle of cycle 1 holding, under "q", what was assigned as a wire named
\* "a" of cycle 0.
C8_Witness ==
    /\ b.cycle = 1 /\ DictHas(b.wires, "q")
    /\ Len(DictGet(b.wires, "q").srcs) = 1
    /\ DictGet(b.wires, "q").srcs[1].name = "a"
    /\ DictGet(b.wires, "q").srcs[1].cycle = 0
    /\ DictGet(b.wires, "q").srcs[1].srcs = <<>>
    /\ last_call.op = "__setitem__"

\* A run of three cycles that emitted the register wire of every cycle.
C8_EngineRan == Done /\ circ = "XorFeedback" /\ sim_cycles = 3 /\ Len(trace) = 6

\* ============================================================ GraphSpec
\* main() of graph.py on a graph of one of its builders: update_input_usage
\* on every vertex in list order, then mark_and_sweep.
GateClasses == {"AndGate1B", "NandGate1B", "OrGate1B"}

Graphs ==
    {gate_graph(cls, "gate", a, bb, q) : cls \in GateClasses, a \in 0..1, bb \in 0..1, q \in 0..1}
    \cup {xor_from_nands_toposort(a, bb) : a \in 0..1, bb \in 0..1}
    \cup {zero_and, orphan_inputs}

InGraphSpec == graph_pc # "idle"

GraphInit ==
    /\ OpIdle /\ BundleIdle /\ EngineIdle
    /\ \E built \in Graphs : nodes = built.vertices /\ edges = built.store
    /\ graph_pc = "update" /\ node_k = 1
    /\ swept_marked = <<>> /\ swept_stack = <<>> /\ swept = <<>> /\ graph_raised = None

\* One turn of `for node in nodes: node.update_input_usage()`; the
\* exception of an impossible case ends main().
UpdateUsage(u) ==
    /\ graph_pc = "update" /\ node_k <= Len(nodes)
    /\ IF u.raised # None
       THEN /\ graph_raised' = u.raised /\ graph_pc' = "raised"
            /\ UNCHANGED <<edges, node_k>>
       ELSE /\ edges' = u.store /\ node_k' = node_k + 1
            /\ UNCHANGED <<graph_raised, graph_pc>>
    /\ UNCHANGED <<nodes, swept_marked, swept_stack, swept>>
    /\ UNCHANGED <<opVars, bundleVars, engineVars>>

UpdateStep == graph_pc = "update" /\ node_k <= Len(nodes)
    /\ UpdateUsage(update_input_usage(nodes[node_k], edges))

\* root = nodes[-1]; marked = [root]; stack = [root]
SweepStart ==
    /\ graph_pc = "update" /\ node_k > Len(nodes)
    /\ IF Len(nodes) = 0
       THEN /\ graph_raised' = "IndexError" /\ graph_pc' = "raised"
            /\ UNCHANGED <<swept_marked, swept_stack>>
       ELSE /\ swept_marked' = <<Len(nodes)>> /\ swept_stack' = <<Len(nodes)>>
            /\ graph_pc' = "sweep" /\ UNCHANGED graph_raised
    /\ UNCHANGED <<nodes, edges, node_k, swept>>
    /\ UNCHANGED <<opVars, bundleVars, engineVars>>

\* One turn of `while len(stack) != 0`: node = stack.pop(), then the loop
\* over node.inputs. A None on the stack has no inputs to read.
SweptInputs(r) ==
    /\ swept_marked' = r.marked /\ swept_stack' = r.stack
    /\ UNCHANGED <<graph_pc, graph_raised>>

SweepStep ==
    /\ graph_pc = "sweep" /\ Len(swept_stack) # 0
    /\ IF swept_stack[Len(swept_stack)] = NoVertex
       THEN /\ graph_raised' = "AttributeError" /\ graph_pc' = "raised"
            /\ UNCHANGED <<swept_marked, swept_stack>>
       ELSE SweptInputs(SweepInputs(nodes, edges,
                                    nodes[swept_stack[Len(swept_stack)]].inputs,
                                    swept_marked, SubSeq(swept_stack, 1, Len(swept_stack) - 1)))
    /\ UNCHANGED <<nodes, edges, node_k, swept>>
    /\ UNCHANGED <<opVars, bundleVars, engineVars>>

\* return marked[::-1]
SweepReturn ==
    /\ graph_pc = "sweep" /\ Len(swept_stack) = 0
    /\ swept' = Reversed(swept_marked) /\ graph_pc' = "done"
    /\ UNCHANGED <<nodes, edges, node_k, swept_marked, swept_stack, graph_raised>>
    /\ UNCHANGED <<opVars, bundleVars, engineVars>>

GraphNext == UpdateStep \/ SweepStart \/ SweepStep \/ SweepReturn

GraphSpec == GraphInit /\ [][GraphNext]_vars

\* The names of the vertices mark_and_sweep returned.
SweptNames == {nodes[swept[k]].name : k \in 1..Len(swept)}

\* main() has returned on an AND vertex fed by the input vertices a and b,
\* its output edge carrying a AND b.
AndSwept ==
    /\ graph_pc = "done" /\ Len(nodes) = 3 /\ nodes[3].cls = "AndGate1B"
    /\ nodes[1].cls = "Input1B" /\ nodes[2].cls = "Input1B"
    /\ edges["q"].usage = "OUTPUT"
    /\ edges["q"].value = BitAnd(edges["a"].value, edges["b"].value)

\* C19: on the graph of an AND vertex whose output edge is the observed
\* output, update_input_usage on every vertex and then mark_and_sweep return
\* the AND vertex always, both a and b for the inputs (0,0) and (1,1), a and
\* not b for (0,1), b and not a for (1,0).
C19_AndLiveness ==
    AndSwept =>
        /\ nodes[3].name \in SweptNames
        /\ ("a" \in SweptNames) = ~(edges["a"].value = 1 /\ edges["b"].value = 0)
        /\ ("b" \in SweptNames) = ~(edges["a"].value = 0 /\ edges["b"].value = 1)
        /\ Len(swept) = Cardinality(SweptNames)

C19_Witness ==
    /\ AndSwept /\ edges["a"].value = 0 /\ edges["b"].value = 1
    /\ SweptNames = {"a", nodes[3].name} /\ edges["b"].usage = "UNUSED"

\* main() has returned on the XOR of four NAND vertices.
XorSwept ==
    /\ graph_pc = "done" /\ Len(nodes) = 6 /\ nodes[6].name = "c"
    /\ \A k \in 3..6 : nodes[k].cls = "NandGate1B"

\* C20: on the XOR built from four NAND vertices, for every (a, b),
\* update_input_usage on every vertex and then mark_and_sweep from the
\* output vertex c return c and both input vertices a and b.
C20_XorInputsLive == XorSwept => {"c", "a", "b"} \subseteq SweptNames

C20_Witness ==
    /\ XorSwept /\ edges["edge_a_m1"].value = 0 /\ edges["edge_b_m1"].value = 1
    /\ edges["edge_c_out"].value = 1 /\ {"c", "a", "b"} \subseteq SweptNames
    /\ "m2" \notin SweptNames

\* The vertices one step behind the set S: the sources of the input edges,
\* not UNUSED, of the vertices of S.
LiveBehind(S) ==
    {u \in 1..Len(nodes) :
        \E v \in S : \E j \in 1..Len(nodes[v].inputs) :
            /\ edges[nodes[v].inputs[j]].usage # "UNUSED"
            /\ edges[nodes[v].inputs[j]].src = u}

RECURSIVE BackwardReachable(_)
BackwardReachable(S) ==
    IF LiveBehind(S) \subseteq S THEN S ELSE BackwardReachable(S \cup LiveBehind(S))

\* C21: mark_and_sweep returns exactly the vertices backward-reachable from
\* the root, the last of the list, along the input edges whose usage is not
\* UNUSED: the root among them, each vertex once, and no vertex without such
\* a path (an input wired to nothing).
C21_SweepIsReachability ==
    graph_pc = "done" =>
        /\ {swept[k] : k \in 1..Len(swept)} = BackwardReachable({Len(nodes)})
        /\ Len(swept) = Cardinality(BackwardReachable({Len(nodes)}))
        /\ Len(nodes) \in {swept[k] : k \in 1..Len(swept)}

C21_Witness ==
    /\ graph_pc = "done" /\ Len(nodes) = 5 /\ SweptNames = {"a", "and"}
    /\ edges["c"].usage = "USED" /\ edges["c"].dest = NoVertex

\* update_input_usage has run on the gate of class cls, third of the list
\* behind the input vertices a and b.
GateUpdated(cls) ==
    /\ graph_pc \in {"update", "sweep", "done"} /\ node_k > 3
    /\ Len(nodes) = 3 /\ nodes[3].cls = cls

\* The inputs of the gate whose edges are not UNUSED, by name.
LiveInputs == {e \in {"a", "b"} : edges[e].usage # "UNUSED"}

\* The operands of the gate as wires of one bit, named as the edges are.
OperandA == ConcreteWire("a", BV1(edges["a"].value), 0, <<>>)
OperandB == ConcreteWire("b", BV1(edges["b"].value), 0, <<>>)

\* The names of the wires a GraphNode keeps as sources.
KeptOperands(node) == {node[2][k].name : k \in 1..Len(node[2])}

\* C29: for every (a, b) of one bit each, the operands ConcreteWire.__and__
\* keeps in sources are exactly the inputs whose edges AndGate1B's
\* update_input_usage leaves not UNUSED when the output edge carries a AND b;
\* the same for __or__ and OrGate1B with a OR b.
C29_DesignsAgree ==
    /\ (GateUpdated("AndGate1B") /\ edges["q"].value = __and__(OperandA, OperandB)[1].value)
           => LiveInputs = KeptOperands(__and__(OperandA, OperandB))
    /\ (GateUpdated("OrGate1B") /\ edges["q"].value = __or__(OperandA, OperandB)[1].value)
           => LiveInputs = KeptOperands(__or__(OperandA, OperandB))

C29_Witness ==
    /\ GateUpdated("OrGate1B") /\ edges["a"].value = 0 /\ edges["b"].value = 1
    /\ edges["q"].value = 1 /\ LiveInputs = {"b"}
    /\ KeptOperands(__or__(OperandA, OperandB)) = {"b"}

====
